---- MODULE Spec2Model ----
(***************************************************************************)
(* Model of the two algorithmic functions of visualizer.py:                *)
(*   calculate_epsilon_closures(nfa)   -- lines 140-156                    *)
(*   visualize_dfa_path(dfa, s)        -- lines 57-70 (the simulation; the *)
(*                                        graph drawing that follows only  *)
(*                                        reads dfa, s, path and accepted) *)
(* A behaviour is one call of one of the two functions on one input.       *)
(* Python dicts are functions with an explicit domain, lists are           *)
(* sequences, sets are sets.                                               *)
(***************************************************************************)
EXTENDS Integers, Sequences, FiniteSets, TLC

\* ------------------------------------------------------------ bounds
MaxTargets == 1   \* longest epsilon target list of an enumerated NFA
MaxStrLen  == 3   \* longest enumerated input string

\* ------------------------------------------------------------ values
\* the states the enumerated NFAs mention, in declaration order
NfaStates == <<"q0", "q1", "q2">>

\* the states of the enumerated DFAs, in declaration order
DfaStates == <<"q0", "q1">>

\* the epsilon symbol of the transition keys
EPSILON == "λ"

\* Python's None, the default of the DFA lookup
None == "None"

\* an empty dict
EmptyDict == [k \in {} |-> {}]

\* dict.get(key, default)
Get(d, key, default) == IF key \in DOMAIN d THEN d[key] ELSE default

\* d[key] = value
Put(d, key, value) == [k \in DOMAIN d \cup {key} |-> IF k = key THEN value ELSE d[k]]

SeqsUpTo(S, n) == UNION {[1..k -> S] : k \in 0..n}

PartialFns(K, V) == UNION {[D -> V] : D \in SUBSET K}

Range(f) == {f[k] : k \in DOMAIN f}

\* the lists l[1..n] for the given lengths n
Prefixes(l, lengths) == {SubSeq(l, 1, n) : n \in lengths}

\* ------------------------------------------------------------ inputs
\* the demo epsilon-NFA of __main__
e_nfa ==
  [states        |-> <<"q0", "q1", "q2", "q3">>,
   alphabet      |-> <<"a", "b">>,
   transitions   |-> (<<"q0", EPSILON>> :> <<"q1", "q3">>) @@ (<<"q1", "a">> :> <<"q2">>)
                     @@ (<<"q2", "b">> :> <<"q0">>) @@ (<<"q3", "b">> :> <<"q2">>),
   start_state   |-> "q0",
   accept_states |-> {"q2"}]

\* the demo DFA of __main__ (mod-3 counter)
demo_dfa ==
  [states        |-> <<"q0", "q1", "q2">>,
   alphabet      |-> <<"0", "1">>,
   transitions   |-> (<<"q0", "0">> :> "q0") @@ (<<"q0", "1">> :> "q1")
                     @@ (<<"q1", "0">> :> "q2") @@ (<<"q1", "1">> :> "q0")
                     @@ (<<"q2", "0">> :> "q1") @@ (<<"q2", "1">> :> "q2"),
   start_state   |-> "q0",
   accept_states |-> {"q2"}]

demo_strings == {<<"1", "0", "0", "0", "1", "0", "1">>, <<"0", "0", "1", "0", "1", "1", "1">>}

\* epsilon entries: any subset of the states has a 'λ' key, each with a list of
\* at most MaxTargets targets (repetitions and self-loops included)
EpsTables ==
  PartialFns({<<q, EPSILON>> : q \in Range(NfaStates)},
             SeqsUpTo(Range(NfaStates), MaxTargets))

\* non-epsilon entries: none, or one 'a' entry with one target
SymTables ==
  {EmptyDict} \cup
  {(<<q, "a">> :> <<t>>) : q \in Range(NfaStates), t \in Range(NfaStates)}

\* the declared states are all of NfaStates, or all but the last one (then the
\* last one may occur as an undeclared transition target)
NfaInputs ==
  {[states        |-> declared,
    alphabet      |-> <<"a">>,
    transitions   |-> eps @@ sym,
    start_state   |-> "q0",
    accept_states |-> {}] :
     declared \in Prefixes(NfaStates, {Len(NfaStates) - 1, Len(NfaStates)}),
     eps \in EpsTables, sym \in SymTables}
  \cup {e_nfa}

DfaAlphabet == {"0", "1"}

\* a partial transition mapping, any start state, any accepting set
DfaInputs ==
  {[states        |-> DfaStates,
    alphabet      |-> <<"0", "1">>,
    transitions   |-> t,
    start_state   |-> q,
    accept_states |-> acc] :
     t \in PartialFns(Range(DfaStates) \X DfaAlphabet, Range(DfaStates)),
     q \in Range(DfaStates),
     acc \in SUBSET Range(DfaStates)}

StringInputs == SeqsUpTo(DfaAlphabet, MaxStrLen)

NoAutomaton ==
  [states |-> <<>>, alphabet |-> <<>>, transitions |-> EmptyDict,
   start_state |-> None, accept_states |-> {}]

\* ------------------------------------------------------------ state
VARIABLES
  call,              \* which function runs: "closures" or "path"
  pc,                \* position in the running function
  nfa,               \* argument of calculate_epsilon_closures
  epsilon_closures,  \* its local dict, returned at the end
  state_idx,         \* number of states the outer for loop has finished
  visited,           \* local set of the current search
  stack,             \* local work stack of the current search
  expanded,          \* history: states expanded in the current search, in order
  dfa,               \* argument of visualize_dfa_path
  s,                 \* argument of visualize_dfa_path
  sym_idx,           \* 0-based index of the symbol the for loop is at
  current_state,     \* local
  path,              \* local, returned
  accepted,          \* local, returned
  halted             \* history: the loop left through the break of line 66

vars == <<call, pc, nfa, epsilon_closures, state_idx, visited, stack, expanded,
          dfa, s, sym_idx, current_state, path, accepted, halted>>

closureVars == <<nfa, epsilon_closures, state_idx, visited, stack, expanded>>

pathVars == <<dfa, s, sym_idx, current_state, path, accepted, halted>>

\* ------------------------------------------------------------ calculate_epsilon_closures
InitClosures ==
  /\ call = "closures"
  /\ pc = "for"
  /\ nfa \in NfaInputs
  /\ epsilon_closures = EmptyDict
  /\ state_idx = 0
  /\ visited = {}
  /\ stack = <<>>
  /\ expanded = <<>>
  /\ dfa = NoAutomaton
  /\ s = <<>>
  /\ sym_idx = 0
  /\ current_state = None
  /\ path = <<>>
  /\ accepted = FALSE
  /\ halted = FALSE

\* the state the outer for loop is at
state == nfa.states[state_idx + 1]

\* variant: the search follows the entries of every symbol, not only 'λ'
EpsilonTargetsAnySymbol(n, q) ==
  Get(n.transitions, <<q, EPSILON>>, <<>>) \o Get(n.transitions, <<q, "a">>, <<>>)
  \o Get(n.transitions, <<q, "b">>, <<>>)

\* nfa['transitions'].get((current_state, 'λ'), [])
EpsilonTargets(n, q) == Get(n.transitions, <<q, EPSILON>>, <<>>)

\* variant: the search starts from the targets of the state, not from the state
ForStateFromTargets ==
  /\ call = "closures" /\ pc = "for"
  /\ state_idx < Len(nfa.states)
  /\ epsilon_closures' = Put(epsilon_closures, state, {})
  /\ visited' = {}
  /\ stack' = EpsilonTargets(nfa, state)
  /\ expanded' = <<>>
  /\ pc' = "while"
  /\ UNCHANGED <<call, nfa, state_idx>>
  /\ UNCHANGED pathVars

\* lines 143-146: next state of the for loop, fresh closure, visited and stack
ForState ==
  /\ call = "closures" /\ pc = "for"
  /\ state_idx < Len(nfa.states)
  /\ epsilon_closures' = Put(epsilon_closures, state, {})
  /\ visited' = {}
  /\ stack' = <<state>>
  /\ expanded' = <<>>
  /\ pc' = "while"
  /\ UNCHANGED <<call, nfa, state_idx>>
  /\ UNCHANGED pathVars

\* lines 147-150: pop a state that was already visited and continue
SkipVisited ==
  /\ call = "closures" /\ pc = "while"
  /\ stack # <<>>
  /\ stack[Len(stack)] \in visited
  /\ stack' = SubSeq(stack, 1, Len(stack) - 1)
  /\ UNCHANGED <<call, pc, nfa, epsilon_closures, state_idx, visited, expanded>>
  /\ UNCHANGED pathVars

\* variant: no visited check before expanding
ExpandWithoutVisitedCheck ==
  /\ call = "closures" /\ pc = "while"
  /\ stack # <<>>
  /\ LET cur == stack[Len(stack)] IN
       /\ visited' = visited \cup {cur}
       /\ epsilon_closures' =
            [epsilon_closures EXCEPT ![state] = epsilon_closures[state] \cup {cur}]
       /\ stack' = SubSeq(stack, 1, Len(stack) - 1) \o EpsilonTargets(nfa, cur)
       /\ expanded' = Append(expanded, cur)
  /\ UNCHANGED <<call, pc, nfa, state_idx>>
  /\ UNCHANGED pathVars

\* variant: only the targets of the start state of the search are pushed
ExpandOneLevel ==
  /\ call = "closures" /\ pc = "while"
  /\ stack # <<>>
  /\ LET cur == stack[Len(stack)] IN
       /\ cur \notin visited
       /\ visited' = visited \cup {cur}
       /\ epsilon_closures' =
            [epsilon_closures EXCEPT ![state] = epsilon_closures[state] \cup {cur}]
       /\ stack' = SubSeq(stack, 1, Len(stack) - 1)
                   \o (IF cur = state THEN EpsilonTargets(nfa, cur) ELSE <<>>)
       /\ expanded' = Append(expanded, cur)
  /\ UNCHANGED <<call, pc, nfa, state_idx>>
  /\ UNCHANGED pathVars

\* lines 147-154: pop an unvisited state, record it, push its epsilon targets
Expand ==
  /\ call = "closures" /\ pc = "while"
  /\ stack # <<>>
  /\ LET cur == stack[Len(stack)] IN
       /\ cur \notin visited
       /\ visited' = visited \cup {cur}
       /\ epsilon_closures' =
            [epsilon_closures EXCEPT ![state] = epsilon_closures[state] \cup {cur}]
       /\ stack' = SubSeq(stack, 1, Len(stack) - 1) \o EpsilonTargets(nfa, cur)
       /\ expanded' = Append(expanded, cur)
  /\ UNCHANGED <<call, pc, nfa, state_idx>>
  /\ UNCHANGED pathVars

\* line 147: the stack is empty, the for loop moves on
WhileExit ==
  /\ call = "closures" /\ pc = "while"
  /\ stack = <<>>
  /\ state_idx' = state_idx + 1
  /\ pc' = "for"
  /\ UNCHANGED <<call, nfa, epsilon_closures, visited, stack, expanded>>
  /\ UNCHANGED pathVars

\* variant: the table is also stored in the automaton under 'epsilon_closures'
ReturnClosuresStoredInNfa ==
  /\ call = "closures" /\ pc = "for"
  /\ state_idx = Len(nfa.states)
  /\ nfa' = Put(nfa, "epsilon_closures", epsilon_closures)
  /\ pc' = "done"
  /\ UNCHANGED <<call, epsilon_closures, state_idx, visited, stack, expanded>>
  /\ UNCHANGED pathVars

\* line 156: the for loop is exhausted, return epsilon_closures
ReturnClosures ==
  /\ call = "closures" /\ pc = "for"
  /\ state_idx = Len(nfa.states)
  /\ pc' = "done"
  /\ UNCHANGED <<call>>
  /\ UNCHANGED closureVars
  /\ UNCHANGED pathVars

\* ------------------------------------------------------------ visualize_dfa_path
InitPath ==
  /\ call = "path"
  /\ pc = "for"
  /\ \/ dfa \in DfaInputs /\ s \in StringInputs
     \/ dfa = demo_dfa /\ s \in demo_strings
  /\ sym_idx = 0
  /\ current_state = dfa.start_state
  /\ path = <<dfa.start_state>>
  /\ accepted = TRUE
  /\ halted = FALSE
  /\ nfa = NoAutomaton
  /\ epsilon_closures = EmptyDict
  /\ state_idx = 0
  /\ visited = {}
  /\ stack = <<>>
  /\ expanded = <<>>

\* variant: the lookup key uses the start state instead of the current state
LookupFromStart(d, q, symbol) == Get(d.transitions, <<d.start_state, symbol>>, None)

\* dfa['transitions'].get((current_state, symbol), None)
Lookup(d, q, symbol) == Get(d.transitions, <<q, symbol>>, None)

\* variant: the flag set at the break is ignored
FinalAcceptedIgnoringHalt(acc, q, d) == q \in d.accept_states

\* line 70: accepted and current_state in dfa['accept_states']
FinalAccepted(acc, q, d) == acc /\ q \in d.accept_states

\* variant: a transition that stays in the same state is not appended to the path
ConsumeSkippingSelfLoops ==
  /\ call = "path" /\ pc = "for"
  /\ sym_idx < Len(s)
  /\ LET next_state == Lookup(dfa, current_state, s[sym_idx + 1]) IN
       /\ next_state # None
       /\ current_state' = next_state
       /\ path' = IF next_state = current_state THEN path ELSE Append(path, next_state)
  /\ sym_idx' = sym_idx + 1
  /\ UNCHANGED <<call, pc, dfa, s, accepted, halted>>
  /\ UNCHANGED closureVars

\* lines 62-63, 67-68: the transition exists, take it and extend the path
Consume ==
  /\ call = "path" /\ pc = "for"
  /\ sym_idx < Len(s)
  /\ LET next_state == Lookup(dfa, current_state, s[sym_idx + 1]) IN
       /\ next_state # None
       /\ current_state' = next_state
       /\ path' = Append(path, next_state)
  /\ sym_idx' = sym_idx + 1
  /\ UNCHANGED <<call, pc, dfa, s, accepted, halted>>
  /\ UNCHANGED closureVars

\* variant: the missing entry is appended to the path before the break
HaltAppendingNone ==
  /\ call = "path" /\ pc = "for"
  /\ sym_idx < Len(s)
  /\ Lookup(dfa, current_state, s[sym_idx + 1]) = None
  /\ accepted' = FALSE
  /\ halted' = TRUE
  /\ path' = Append(path, None)
  /\ pc' = "accept"
  /\ UNCHANGED <<call, dfa, s, sym_idx, current_state>>
  /\ UNCHANGED closureVars

\* variant: the loop goes on to the next symbol instead of breaking
HaltWithoutBreak ==
  /\ call = "path" /\ pc = "for"
  /\ sym_idx < Len(s)
  /\ Lookup(dfa, current_state, s[sym_idx + 1]) = None
  /\ accepted' = FALSE
  /\ halted' = TRUE
  /\ sym_idx' = sym_idx + 1
  /\ UNCHANGED <<call, pc, dfa, s, current_state, path>>
  /\ UNCHANGED closureVars

\* lines 62-66: no transition, accepted = False and break
Halt ==
  /\ call = "path" /\ pc = "for"
  /\ sym_idx < Len(s)
  /\ Lookup(dfa, current_state, s[sym_idx + 1]) = None
  /\ accepted' = FALSE
  /\ halted' = TRUE
  /\ pc' = "accept"
  /\ UNCHANGED <<call, dfa, s, sym_idx, current_state, path>>
  /\ UNCHANGED closureVars

\* line 62: the string is exhausted
LoopExit ==
  /\ call = "path" /\ pc = "for"
  /\ sym_idx = Len(s)
  /\ pc' = "accept"
  /\ UNCHANGED <<call>>
  /\ UNCHANGED pathVars
  /\ UNCHANGED closureVars

\* lines 70-99: the final flag; the drawing reads dfa, s, path and accepted
\* and the function returns (graph, accepted, path)
Accept ==
  /\ call = "path" /\ pc = "accept"
  /\ accepted' = FinalAccepted(accepted, current_state, dfa)
  /\ pc' = "done"
  /\ UNCHANGED <<call, dfa, s, sym_idx, current_state, path, halted>>
  /\ UNCHANGED closureVars

\* ------------------------------------------------------------ specification
Init == InitClosures \/ InitPath

Next ==
  \/ ForState
  \/ SkipVisited
  \/ Expand
  \/ WhileExit
  \/ ReturnClosures
  \/ Consume
  \/ Halt
  \/ LoopExit
  \/ Accept

Spec == Init /\ [][Next]_vars

\* both functions are straight-line sequential code: a step that can be taken is taken
FairSpec == Spec /\ WF_vars(Next)

\* ------------------------------------------------------------ reference notions
\* targets of the 'λ' entry of q, as a set
EpsSucc(n, q) ==
  IF <<q, EPSILON>> \in DOMAIN n.transitions THEN Range(n.transitions[<<q, EPSILON>>]) ELSE {}

\* every state the automaton mentions
Mentioned(n) ==
  Range(n.states) \cup {k[1] : k \in DOMAIN n.transitions}
  \cup UNION {Range(n.transitions[k]) : k \in DOMAIN n.transitions}

\* states reachable from q by at most k epsilon transitions
RECURSIVE ReachWithin(_, _, _)
ReachWithin(n, q, k) ==
  IF k = 0 THEN {q}
  ELSE LET R == ReachWithin(n, q, k - 1) IN R \cup UNION {EpsSucc(n, r) : r \in R}

\* states reachable from q by zero or more epsilon transitions
EpsReach(n, q) == ReachWithin(n, q, Cardinality(Mentioned(n)))

\* every target of every transition is a declared state
TargetsDeclared(n) ==
  \A k \in DOMAIN n.transitions : Range(n.transitions[k]) \subseteq Range(n.states)

\* the extended transition function: the state after reading w from q, None when
\* some transition on the way is missing
RECURSIVE DeltaHat(_, _, _)
DeltaHat(d, q, w) ==
  IF w = <<>> THEN q
  ELSE IF <<q, Head(w)>> \in DOMAIN d.transitions
       THEN DeltaHat(d, d.transitions[<<q, Head(w)>>], Tail(w))
       ELSE None

\* the whole string can be read from the start state
Consumable(d, w) == DeltaHat(d, d.start_state, w) # None

\* index k (0-based) is where reading w first meets a missing transition
FailsAt(d, w, k) ==
  /\ k \in 0..(Len(w) - 1)
  /\ DeltaHat(d, d.start_state, SubSeq(w, 1, k)) # None
  /\ <<DeltaHat(d, d.start_state, SubSeq(w, 1, k)), w[k + 1]>> \notin DOMAIN d.transitions

ClosuresDone == call = "closures" /\ pc = "done"

PathDone == call = "path" /\ pc = "done"

\* ------------------------------------------------------------ claims

\* C1: for an NFA whose transition targets are all declared, the returned dict has
\* exactly the declared states as keys and maps each state to exactly the states
\* reachable from it by zero or more 'λ' transitions; for the demo e_nfa it is
\* q0 -> {q0,q1,q3}, q1 -> {q1}, q2 -> {q2}, q3 -> {q3}.
C1_ClosureIsEpsReach ==
  ClosuresDone =>
    /\ TargetsDeclared(nfa) =>
         /\ DOMAIN epsilon_closures = Range(nfa.states)
         /\ \A q \in Range(nfa.states) : epsilon_closures[q] = EpsReach(nfa, q)
    /\ nfa = e_nfa =>
         epsilon_closures = ("q0" :> {"q0", "q1", "q3"}) @@ ("q1" :> {"q1"})
                            @@ ("q2" :> {"q2"}) @@ ("q3" :> {"q3"})

\* a finished call on an NFA with declared targets where one closure holds every
\* declared state and a non-epsilon transition leads outside its source's closure
C1_Witness ==
  /\ ClosuresDone /\ TargetsDeclared(nfa) /\ nfa # e_nfa
  /\ Len(nfa.states) >= 3
  /\ \E q \in Range(nfa.states) : epsilon_closures[q] = Range(nfa.states)
  /\ \E k \in DOMAIN nfa.transitions :
       /\ k[2] # EPSILON
       /\ k[1] \in Range(nfa.states)
       /\ \E t \in Range(nfa.transitions[k]) : t \notin epsilon_closures[k[1]]

\* the demo call has finished
C1_WitnessDemo == ClosuresDone /\ nfa = e_nfa

\* C2: the returned accepted flag is true exactly when the whole string is
\* consumable (no missing-transition halt) and the state reached after the last
\* symbol is accepting; an accepting state earlier on the path does not count.
C2_AcceptedIffConsumedAndFinalAccepting ==
  PathDone =>
    /\ halted <=> ~Consumable(dfa, s)
    /\ accepted <=> (/\ Consumable(dfa, s)
                     /\ DeltaHat(dfa, dfa.start_state, s) \in dfa.accept_states)

\* a rejected string that was read to the end and passed through an accepting state
C2_Witness ==
  /\ PathDone /\ ~accepted /\ ~halted /\ Len(s) >= 2
  /\ \E i \in 1..(Len(path) - 1) : path[i] \in dfa.accept_states

\* C3: len(path) = 1 + consumed symbols, consumed <= len(s), and consumed = len(s)
\* exactly when the whole string is consumable. (sym_idx counts the symbols
\* consumed: only Consume increments it.)
C3_PathLengthIsConsumedPlusOne ==
  call = "path" =>
    /\ Len(path) = 1 + sym_idx
    /\ sym_idx <= Len(s)
    /\ pc = "done" => (sym_idx = Len(s) <=> Consumable(dfa, s))

\* a finished run that halted after consuming some symbols
C3_Witness == PathDone /\ halted /\ sym_idx >= 1 /\ sym_idx < Len(s)

\* C4 as stated: the path has length len(s) + 1 for every DFA, partial or not.
C4_PathLengthAlwaysFull == PathDone => Len(path) = Len(s) + 1

\* C4 amended: the path starts with the start state and has length len(s) + 1
\* whenever the whole string is consumable (8 for the demo DFA and strings);
\* when a transition is missing it is shorter.
C4_PathLengthFullWhenConsumable ==
  PathDone =>
    /\ Len(path) >= 1
    /\ path[1] = dfa.start_state
    /\ Consumable(dfa, s) => Len(path) = Len(s) + 1
    /\ ~Consumable(dfa, s) => Len(path) < Len(s) + 1
    /\ dfa = demo_dfa => Len(path) = 8

\* the demo run on "1000101" has finished
C4_Witness == PathDone /\ dfa = demo_dfa /\ s = <<"1", "0", "0", "0", "1", "0", "1">>

\* C5: when reading first meets a missing transition at index k, the run halts
\* there: nothing later is consumed, the path has length k + 1 and ends with the
\* state reached by the first k symbols, and accepted is false.
C5_HaltAtMissingTransition ==
  PathDone =>
    \A k \in 0..(Len(s) - 1) :
      FailsAt(dfa, s, k) =>
        /\ halted
        /\ sym_idx = k
        /\ Len(path) = k + 1
        /\ path[Len(path)] = DeltaHat(dfa, dfa.start_state, SubSeq(s, 1, k))
        /\ accepted = FALSE

\* a run that halted in an accepting state, after one transition and with
\* symbols left that the halting state could not read
C5_Witness ==
  /\ PathDone /\ halted
  /\ sym_idx >= 1 /\ sym_idx + 1 < Len(s)
  /\ current_state \in dfa.accept_states

\* C6 (safety part): within one search no state is expanded twice
NoReExpansion ==
  \A i, j \in 1..Len(expanded) : expanded[i] = expanded[j] => i = j

\* C6: the call terminates, and within one search no state is expanded twice.
C6_Terminates == []NoReExpansion /\ <>(pc = "done")

\* a finished call on an NFA with an epsilon self-loop and a two-state epsilon cycle
C6_Witness ==
  /\ ClosuresDone
  /\ \E q \in Range(nfa.states) : q \in EpsSucc(nfa, q)
  /\ \E a, b \in Range(nfa.states) : a # b /\ b \in EpsSucc(nfa, a) /\ a \in EpsSucc(nfa, b)

\* C7: every declared state is in its own closure, and a state without epsilon
\* transitions has the closure {s}; for every NFA, declared targets or not.
C7_Reflexive ==
  ClosuresDone =>
    \A q \in Range(nfa.states) :
      /\ q \in DOMAIN epsilon_closures
      /\ q \in epsilon_closures[q]
      /\ EpsSucc(nfa, q) = {} => epsilon_closures[q] = {q}

\* a finished call with a state without a 'λ' key, a state with an empty 'λ'
\* list, and an undeclared target
C7_Witness ==
  /\ ClosuresDone /\ ~TargetsDeclared(nfa)
  /\ \E q \in Range(nfa.states) : <<q, EPSILON>> \notin DOMAIN nfa.transitions
  /\ \E q \in Range(nfa.states) :
       <<q, EPSILON>> \in DOMAIN nfa.transitions /\ nfa.transitions[<<q, EPSILON>>] = <<>>

\* C8: no step of either function changes its arguments; the closure table is
\* not written into the automaton.
C8_InputsNotMutated == [][nfa' = nfa /\ dfa' = dfa /\ s' = s]_vars

\* a finished closure call with a non-trivial table
C8_Witness ==
  /\ ClosuresDone
  /\ \E q \in DOMAIN epsilon_closures : Cardinality(epsilon_closures[q]) >= 2
  /\ DOMAIN nfa = {"states", "alphabet", "transitions", "start_state", "accept_states"}

\* C9: with declared targets, the union of the closures of the members of
\* closure(s) is closure(s): every t in closure(s) has closure(t) within closure(s).
C9_Idempotent ==
  ClosuresDone /\ TargetsDeclared(nfa) =>
    \A q \in Range(nfa.states) :
      /\ \A t \in epsilon_closures[q] : epsilon_closures[t] \subseteq epsilon_closures[q]
      /\ UNION {epsilon_closures[t] : t \in epsilon_closures[q]} = epsilon_closures[q]

\* a finished call where some closure has another member whose own closure is
\* a non-trivial strict subset
C9_Witness ==
  /\ ClosuresDone /\ TargetsDeclared(nfa)
  /\ \E q \in Range(nfa.states) : \E t \in epsilon_closures[q] :
       /\ t # q
       /\ Cardinality(epsilon_closures[t]) >= 2
       /\ epsilon_closures[t] # epsilon_closures[q]

\* C10: the path is a walk of the DFA over a prefix of the input: it starts at
\* the start state and each next state is the transition entry of the previous
\* state and the symbol at the same index.
C10_PathIsWalk ==
  call = "path" =>
    /\ path[1] = dfa.start_state
    /\ Len(path) - 1 <= Len(s)
    /\ \A i \in 1..(Len(path) - 1) :
         /\ <<path[i], s[i]>> \in DOMAIN dfa.transitions
         /\ path[i + 1] = dfa.transitions[<<path[i], s[i]>>]

\* a finished run whose path visits two different states over three symbols
C10_Witness ==
  /\ PathDone /\ Len(path) = 4
  /\ \E i \in 1..3 : path[i] # path[i + 1]
  /\ \E i, j \in 1..3 : s[i] # s[j]

====
